---- MODULE Spec2Model ----
(***************************************************************************)
(* Completions endpoint of the openai client (completions.go).             *)
(*                                                                         *)
(* The module has two parts.                                               *)
(*   - The codec: CompletionRequest / CompletionResponse and the JSON      *)
(*     mapping their struct tags select (encoding/json rules: omitempty,   *)
(*     pointers, nil slices and maps, type mismatches).                    *)
(*   - The transport: Client.CreateCompletion and                          *)
(*     Client.CreateFineTunedCompletion, run by several concurrent calls.  *)
(***************************************************************************)
EXTENDS Integers, Sequences, FiniteSets, TLC

VARIABLES
  pc,        \* per call: "notStarted", "awaiting", "done"
  entry,     \* per call: the entry point it runs
  req,       \* per call: the *CompletionRequest it was given
  ctxDone,   \* per call: its context was cancelled while it waited
  wire,      \* per call: the POSTs it issued, [route, body], in order
  reply,     \* per call: what the server returned for its POST, if anything yet
  ret,       \* per call: the (response, error) pair returned to the caller
  decoded,   \* per call: how many times json.Unmarshal ran for it
  cstage,    \* codec: "request", "serialized", "roundtrip", "body", "parsed"
  cin,       \* codec: the value under conversion (a request or a response body)
  cbody,     \* codec: the serialized request
  cout       \* codec: the result of deserialization, [val, err]

tvars == <<pc, entry, req, ctxDone, wire, reply, ret, decoded>>
cvars == <<cstage, cin, cbody, cout>>
vars == <<pc, entry, req, ctxDone, wire, reply, ret, decoded, cstage, cin, cbody, cout>>

----------------------------------------------------------------------------
(* Bounds *)

NCalls == 2          \* concurrent calls on one client
MaxSetFields == 3    \* optional request fields given a non-zero value
MaxChoices == 2      \* entries of a response's choices array

----------------------------------------------------------------------------
(* Go values: pointers, slices and maps are nil or hold a value *)

Nil == [nil |-> TRUE]
Some(v) == [some |-> v]
IsNil(p) == "nil" \in DOMAIN p

(* JSON values, tagged by kind; Absent marks a key the object does not have *)

Absent == [absent |-> TRUE]
JNull == [null |-> TRUE]
JStr(s) == [str |-> s]
JNum(n) == [num |-> n]
JBool(b) == [bool |-> b]
JArr(s) == [arr |-> s]
JObj(o) == [obj |-> o]
JMap(s) == [kv |-> s]

IsAbsent(j) == "absent" \in DOMAIN j
IsNull(j) == "null" \in DOMAIN j
IsStr(j) == "str" \in DOMAIN j
IsNum(j) == "num" \in DOMAIN j
IsBool(j) == "bool" \in DOMAIN j
IsArr(j) == "arr" \in DOMAIN j
IsObj(j) == "obj" \in DOMAIN j
IsMap(j) == "kv" \in DOMAIN j

Keys(j) == {k \in DOMAIN j.obj : ~IsAbsent(j.obj[k])}

----------------------------------------------------------------------------
(* The model identifier: two closed variants *)

Variants == {"Completion", "FineTunedModel"}

ModelID(T, name) == [variant |-> T, name |-> name]

MarshalModel(m) == JStr(m.name)

----------------------------------------------------------------------------
(* Serialization of a CompletionRequest: one helper per Go field kind *)

BadUTF8 == "<ff>"
Replacement == "<U+FFFD>"

\* json.Marshal coerces a string to valid UTF-8
ValidUTF8(s) == IF s = BadUTF8 THEN Replacement ELSE s

StringOmitempty(s) == IF s = "" THEN Absent ELSE JStr(ValidUTF8(s))

\* IntOmitempty with the field never written (a "-" tag)
IntOmitemptyNever(n) == Absent
IntOmitempty(n) == IF n = 0 THEN Absent ELSE JNum(n)

FloatOmitempty(x) == IF x = 0 THEN Absent ELSE JNum(x)

BoolOmitempty(b) == IF b THEN JBool(TRUE) ELSE Absent

\* PtrOmitempty with the pointer treated like the bare number
PtrOmitemptyBare(p) == IF IsNil(p) \/ p.some = 0 THEN Absent ELSE JNum(p.some)
PtrOmitempty(p) == IF IsNil(p) THEN Absent ELSE JNum(p.some)

StringsOmitempty(s) ==
  IF IsNil(s) \/ Len(s.some) = 0 THEN Absent
  ELSE JArr([i \in 1..Len(s.some) |-> JStr(ValidUTF8(s.some[i]))])

MapOmitempty(m) ==
  IF IsNil(m) \/ Len(m.some) = 0 THEN Absent
  ELSE JMap([i \in 1..Len(m.some) |->
              [k |-> ValidUTF8(m.some[i].k), v |-> JNum(m.some[i].v)]])

MarshalRequest(cr) ==
  JObj([model             |-> MarshalModel(cr.Model),
        prompt            |-> StringOmitempty(cr.Prompt),
        suffix            |-> StringOmitempty(cr.Suffix),
        max_tokens        |-> IntOmitempty(cr.MaxTokens),
        temperature       |-> PtrOmitempty(cr.Temperature),
        top_p             |-> PtrOmitempty(cr.TopP),
        n                 |-> IntOmitempty(cr.N),
        stream            |-> BoolOmitempty(cr.Stream),
        logprobs          |-> PtrOmitempty(cr.LogProbs),
        echo              |-> BoolOmitempty(cr.Echo),
        stop              |-> StringsOmitempty(cr.Stop),
        presence_penalty  |-> FloatOmitempty(cr.PresencePenalty),
        frequency_penalty |-> FloatOmitempty(cr.FrequencyPenalty),
        best_of           |-> IntOmitempty(cr.BestOf),
        logit_bias        |-> MapOmitempty(cr.LogitBias),
        user              |-> StringOmitempty(cr.User)])

----------------------------------------------------------------------------
(* Deserialization: one helper per Go field kind.  Each takes the JSON     *)
(* value under the key and the field's current value, and yields the new   *)
(* value and whether the JSON value did not fit the field's type.          *)

Kept(cur) == [v |-> cur, bad |-> FALSE]
Set(v) == [v |-> v, bad |-> FALSE]
Mismatch(cur) == [v |-> cur, bad |-> TRUE]

\* a slice decoded element by element
Elements(ds) ==
  [v |-> Some([i \in DOMAIN ds |-> ds[i].v]), bad |-> \E i \in DOMAIN ds : ds[i].bad]

\* a pointer to a struct decoded field by field
Fields(d) ==
  [v |-> Some([f \in DOMAIN d |-> d[f].v]), bad |-> \E f \in DOMAIN d : d[f].bad]

DecString(j, cur) ==
  IF IsAbsent(j) \/ IsNull(j) THEN Kept(cur)
  ELSE IF IsStr(j) THEN Set(j.str)
  ELSE Mismatch(cur)

DecInt(j, cur) ==
  IF IsAbsent(j) \/ IsNull(j) THEN Kept(cur)
  ELSE IF IsNum(j) THEN Set(j.num)
  ELSE Mismatch(cur)

DecFloat(j, cur) ==
  IF IsAbsent(j) \/ IsNull(j) THEN Kept(cur)
  ELSE IF IsNum(j) THEN Set(j.num)
  ELSE Mismatch(cur)

DecUint(j, cur) ==
  IF IsAbsent(j) \/ IsNull(j) THEN Kept(cur)
  ELSE IF IsNum(j) /\ j.num >= 0 THEN Set(j.num)
  ELSE Mismatch(cur)

DecBool(j, cur) ==
  IF IsAbsent(j) \/ IsNull(j) THEN Kept(cur)
  ELSE IF IsBool(j) THEN Set(j.bool)
  ELSE Mismatch(cur)

DecPtr(j, cur) ==
  IF IsAbsent(j) THEN Kept(cur)
  ELSE IF IsNull(j) THEN Set(Nil)
  ELSE IF IsNum(j) THEN Set(Some(j.num))
  ELSE Mismatch(cur)

DecStrings(j, cur) ==
  IF IsAbsent(j) THEN Kept(cur)
  ELSE IF IsNull(j) THEN Set(Nil)
  ELSE IF IsArr(j) THEN
    Elements([i \in 1..Len(j.arr) |-> DecString(j.arr[i], "")])
  ELSE Mismatch(cur)

DecNums(j, cur) ==
  IF IsAbsent(j) THEN Kept(cur)
  ELSE IF IsNull(j) THEN Set(Nil)
  ELSE IF IsArr(j) THEN
    Elements([i \in 1..Len(j.arr) |-> DecInt(j.arr[i], 0)])
  ELSE Mismatch(cur)

\* a map decoded entry by entry: the keys as given, the values decoded
Entries(kv, ds) ==
  [v   |-> Some([i \in DOMAIN ds |-> [k |-> kv[i].k, v |-> ds[i].v]]),
   bad |-> \E i \in DOMAIN ds : ds[i].bad]

DecMap(j, cur) ==
  IF IsAbsent(j) THEN Kept(cur)
  ELSE IF IsNull(j) THEN Set(Nil)
  ELSE IF IsMap(j) THEN
    Entries(j.kv, [i \in 1..Len(j.kv) |-> DecInt(j.kv[i].v, 0)])
  ELSE Mismatch(cur)

DecModel(T, j, cur) ==
  IF IsAbsent(j) \/ IsNull(j) THEN Kept(cur)
  ELSE IF IsStr(j) THEN Set(ModelID(T, j.str))
  ELSE Mismatch(cur)

\* the errors json.Unmarshal reports
SyntaxError == "json: syntax error"
UnmarshalTypeError == "json: cannot unmarshal into Go value"

\* what json.Unmarshal leaves in the struct and returns, given its fields' decodings
Unmarshalled(d) ==
  [val |-> [f \in DOMAIN d |-> d[f].v],
   err |-> IF \E f \in DOMAIN d : d[f].bad THEN Some(UnmarshalTypeError)
           ELSE Nil]


ZeroRequest(T) ==
  [Model |-> ModelID(T, ""), Prompt |-> "", Suffix |-> "", MaxTokens |-> 0,
   Temperature |-> Nil, TopP |-> Nil, N |-> 0, Stream |-> FALSE,
   LogProbs |-> Nil, Echo |-> FALSE, Stop |-> Nil, PresencePenalty |-> 0,
   FrequencyPenalty |-> 0, BestOf |-> 0, LogitBias |-> Nil, User |-> ""]

\* json.Unmarshal(b, &CompletionRequest[T]{}) for b an object
UnmarshalRequest(T, j) ==
  Unmarshalled(
    [Model            |-> DecModel(T, j.obj.model, ModelID(T, "")),
     Prompt           |-> DecString(j.obj.prompt, ""),
     Suffix           |-> DecString(j.obj.suffix, ""),
     MaxTokens        |-> DecInt(j.obj.max_tokens, 0),
     Temperature      |-> DecPtr(j.obj.temperature, Nil),
     TopP             |-> DecPtr(j.obj.top_p, Nil),
     N                |-> DecInt(j.obj.n, 0),
     Stream           |-> DecBool(j.obj.stream, FALSE),
     LogProbs         |-> DecPtr(j.obj.logprobs, Nil),
     Echo             |-> DecBool(j.obj.echo, FALSE),
     Stop             |-> DecStrings(j.obj.stop, Nil),
     PresencePenalty  |-> DecFloat(j.obj.presence_penalty, 0),
     FrequencyPenalty |-> DecFloat(j.obj.frequency_penalty, 0),
     BestOf           |-> DecInt(j.obj.best_of, 0),
     LogitBias        |-> DecMap(j.obj.logit_bias, Nil),
     User             |-> DecString(j.obj.user, "")])

----------------------------------------------------------------------------
(* Deserialization of a CompletionResponse *)

DecMaps(j, cur) ==
  IF IsAbsent(j) THEN Kept(cur)
  ELSE IF IsNull(j) THEN Set(Nil)
  ELSE IF IsArr(j) THEN
    Elements([i \in 1..Len(j.arr) |-> DecMap(j.arr[i], Nil)])
  ELSE Mismatch(cur)

ZeroLogprobResult ==
  [Tokens |-> Nil, TokenLogprobs |-> Nil, TopLogprobs |-> Nil, TextOffset |-> Nil]

\* a *LogprobResult field
DecLogprobResult(j, cur) ==
  IF IsAbsent(j) THEN Kept(cur)
  ELSE IF IsNull(j) THEN Set(Nil)
  ELSE IF IsObj(j) THEN
    Fields([Tokens        |-> DecStrings(j.obj.tokens, Nil),
            TokenLogprobs |-> DecNums(j.obj.token_logprobs, Nil),
            TopLogprobs   |-> DecMaps(j.obj.top_logprobs, Nil),
            TextOffset    |-> DecNums(j.obj.text_offset, Nil)])
  ELSE [v |-> Some(ZeroLogprobResult), bad |-> TRUE]

ZeroChoice == [Text |-> "", Index |-> 0, FinishReason |-> "", LogProbs |-> Nil]

\* one element of []*CompletionChoice
DecChoice(j) ==
  IF IsNull(j) THEN Set(Nil)
  ELSE IF IsObj(j) THEN
    Fields([Text         |-> DecString(j.obj.text, ""),
            Index        |-> DecInt(j.obj.index, 0),
            FinishReason |-> DecString(j.obj.finish_reason, ""),
            LogProbs     |-> DecLogprobResult(j.obj.logprobs, Nil)])
  ELSE [v |-> Some(ZeroChoice), bad |-> TRUE]

\* DecChoices with the null entries of the array skipped
DecChoicesDropNull(j, cur) ==
  IF IsAbsent(j) THEN Kept(cur)
  ELSE IF IsNull(j) THEN Set(Nil)
  ELSE IF IsArr(j) THEN
    Elements(SelectSeq([i \in 1..Len(j.arr) |-> DecChoice(j.arr[i])],
                       LAMBDA d : ~IsNil(d.v)))
  ELSE Mismatch(cur)
DecChoices(j, cur) ==
  IF IsAbsent(j) THEN Kept(cur)
  ELSE IF IsNull(j) THEN Set(Nil)
  ELSE IF IsArr(j) THEN
    Elements([i \in 1..Len(j.arr) |-> DecChoice(j.arr[i])])
  ELSE Mismatch(cur)

\* a *Usage field; Usage is declared elsewhere and kept as the object it is
\* read from
ZeroUsage == [total_tokens |-> JNum(0)]

DecUsage(j, cur) ==
  IF IsAbsent(j) THEN Kept(cur)
  ELSE IF IsNull(j) THEN Set(Nil)
  ELSE IF IsObj(j) THEN Set(Some(j.obj))
  ELSE [v |-> Some(ZeroUsage), bad |-> TRUE]

ZeroResponse(T) ==
  [ID |-> "", Object |-> "", Created |-> 0, Model |-> ModelID(T, ""),
   Choices |-> Nil, Usage |-> Nil]

\* bytes that are no JSON text, and the nil byte slice
Malformed == [malformed |-> TRUE]
NoBytes == [empty |-> TRUE]
IsMalformed(b) == "malformed" \in DOMAIN b \/ "empty" \in DOMAIN b

\* json.Unmarshal(b, resp) with resp = &CompletionResponse[T]{}: the value
\* left in *resp and the error returned
UnmarshalResponse(T, b) ==
  IF IsMalformed(b) THEN [val |-> ZeroResponse(T), err |-> Some(SyntaxError)]
  ELSE IF IsNull(b) THEN [val |-> ZeroResponse(T), err |-> Nil]
  ELSE IF ~IsObj(b) THEN [val |-> ZeroResponse(T), err |-> Some(UnmarshalTypeError)]
  ELSE Unmarshalled(
         [ID      |-> DecString(b.obj.id, ""),
          Object  |-> DecString(b.obj.object, ""),
          Created |-> DecUint(b.obj.created, 0),
          Model   |-> DecModel(T, b.obj.model, ModelID(T, "")),
          Choices |-> DecChoices(b.obj.choices, Nil),
          Usage   |-> DecUsage(b.obj.usage, Nil)])

----------------------------------------------------------------------------
(* Inputs of the codec: requests and response bodies *)

OptionalFields ==
  {"Prompt", "Suffix", "MaxTokens", "Temperature", "TopP", "N", "Stream",
   "LogProbs", "Echo", "Stop", "PresencePenalty", "FrequencyPenalty", "BestOf",
   "LogitBias", "User"}

\* the non-zero values a field is given
Alts(f) ==
  CASE f = "Prompt"           -> <<"Say hi", BadUTF8>>
    [] f = "Suffix"           -> <<"!">>
    [] f = "MaxTokens"        -> <<5, 16>>
    [] f = "Temperature"      -> <<Some(0), Some(1)>>
    [] f = "TopP"             -> <<Some(0), Some(1)>>
    [] f = "N"                -> <<2>>
    [] f = "Stream"           -> <<TRUE>>
    [] f = "LogProbs"         -> <<Some(0), Some(5)>>
    [] f = "Echo"             -> <<TRUE>>
    [] f = "Stop"             -> <<Some(<<>>), Some(<<"END", BadUTF8>>)>>
    [] f = "PresencePenalty"  -> <<1, -2>>
    [] f = "FrequencyPenalty" -> <<2>>
    [] f = "BestOf"           -> <<3>>
    [] f = "LogitBias"        -> <<Some(<<>>), Some(<<[k |-> "50256", v |-> -100]>>)>>
    [] f = "User"             -> <<"user-1">>

ModelNames(T) ==
  IF T = "Completion" THEN {"", "text-davinci-003"} ELSE {"", "davinci:ft-acme"}

RequestWith(T, name, S, alt) ==
  [f \in DOMAIN ZeroRequest(T) |->
     IF f = "Model" THEN ModelID(T, name)
     ELSE IF f \in S THEN Alts(f)[alt[f]]
     ELSE ZeroRequest(T)[f]]

AltChoices(S) == {a \in [S -> 1..2] : \A f \in S : a[f] <= Len(Alts(f))}

\* the request of the spec's scenario: model, prompt and max_tokens = 5
MinimalRequest(T, name) ==
  RequestWith(T, name, {"Prompt", "MaxTokens"}, [f \in {"Prompt", "MaxTokens"} |-> 1])

\* a request with an explicit zero temperature and an empty stop list
TunedRequest(T, name) ==
  RequestWith(T, name, {"Prompt", "Temperature", "Stop"},
              [f \in {"Prompt", "Temperature", "Stop"} |-> 1])

SeqsUpTo(S, n) == UNION {[1..k -> S] : k \in 0..n}

LogprobJ ==
  {JNull,
   JObj([tokens         |-> JArr(<<JStr("Hi"), JStr("!")>>),
         token_logprobs |-> JArr(<<JNum(-1), JNum(-2)>>),
         top_logprobs   |-> JArr(<<JMap(<<[k |-> "Hi", v |-> JNum(-1)]>>), JNull>>),
         text_offset    |-> JArr(<<JNum(0)>>)])}

ChoiceJ ==
  {JNull, JStr("oops")} \cup
  {JObj(o) : o \in [text : {JStr("Hi!")}, index : {JNum(i) : i \in 0..(MaxChoices - 1)},
                    finish_reason : {JStr("stop"), JStr("length")},
                    logprobs : LogprobJ]}

ChoicesJ == {Absent, JNull, JStr("oops")} \cup {JArr(s) : s \in SeqsUpTo(ChoiceJ, MaxChoices)}

UsageJ == JObj([total_tokens |-> JNum(7)])

Bodies ==
  {Malformed, JNull, JArr(<<>>)} \cup
  {JObj(o) : o \in [id : {Absent, JStr("cmpl-1")}, object : {JStr("text_completion")},
                    created : {JNum(1600000000), JNum(-1)},
                    model : {JStr("text-davinci-003")},
                    choices : ChoicesJ, usage : {JNull, UsageJ}]}

----------------------------------------------------------------------------
(* The codec as a state machine: a request is serialized and read back,    *)
(* a response body is deserialized.                                        *)

CodecIdle ==
  /\ cstage = "idle"
  /\ cin = Nil
  /\ cbody = Absent
  /\ cout = Nil

Serialize ==
  /\ cstage = "request"
  /\ cbody' = MarshalRequest(cin)
  /\ cstage' = "serialized"
  /\ UNCHANGED <<cin, cout>>
  /\ UNCHANGED tvars

Deserialize ==
  /\ cstage = "serialized"
  /\ cout' = UnmarshalRequest(cin.Model.variant, cbody)
  /\ cstage' = "roundtrip"
  /\ UNCHANGED <<cin, cbody>>
  /\ UNCHANGED tvars

Parse ==
  /\ cstage = "body"
  /\ \E T \in Variants : cout' = UnmarshalResponse(T, cin)
  /\ cstage' = "parsed"
  /\ UNCHANGED <<cin, cbody>>
  /\ UNCHANGED tvars

----------------------------------------------------------------------------
(* The transport: Client.post and the two entry points *)

Calls == 1..NCalls

RoutesCompletions == "completions"

ConnRefused == "dial tcp: connection refused"
StatusError == "http status 429"
ContextCanceled == "context canceled"

SampleRequests(T) ==
  IF T = "Completion"
  THEN {MinimalRequest(T, "text-davinci-003"), TunedRequest(T, "text-davinci-003")}
  ELSE {MinimalRequest(T, "davinci:ft-acme"), TunedRequest(T, "davinci:ft-acme")}

\* the spec's one-choice response
GoodBody ==
  JObj([id |-> JStr("cmpl-1"), object |-> JStr("text_completion"),
        created |-> JNum(1600000000), model |-> JStr("text-davinci-003"),
        choices |-> JArr(<<JObj([text |-> JStr("Hi!"), index |-> JNum(0),
                                 finish_reason |-> JStr("stop"),
                                 logprobs |-> JNull])>>),
        usage |-> UsageJ])

\* valid JSON of the wrong shape: id and model fit, choices and created do not
WrongShapeBody ==
  JObj([id |-> JStr("cmpl-1"), object |-> JStr("text_completion"),
        created |-> JNum(-1), model |-> JStr("text-davinci-003"),
        choices |-> JStr("oops"), usage |-> JNull])

SampleBodies == {GoodBody, WrongShapeBody, Malformed, JArr(<<>>), JNull}

\* what a POST can come back with: bytes, or an error and no bytes
PostOutcomes ==
  {[b |-> body, err |-> Nil] : body \in SampleBodies} \cup
  {[b |-> NoBytes, err |-> Some(e)] : e \in {ConnRefused, StatusError}}

\* c.post(ctx, routes.Completions, cr), as seen by the caller once it returns
post(c) ==
  IF ctxDone[c] THEN [b |-> NoBytes, err |-> Some(ContextCanceled)]
  ELSE reply[c].some

\* what an entry point hands back: (nil, err) or (resp, nil); unmarshals
\* counts its calls of json.Unmarshal
Failed(err, n) == [resp |-> Nil, err |-> err, unmarshals |-> n]

\* the last lines of CreateCompletion, u being what json.Unmarshal(b, resp) gave
CreateCompletionUnmarshalledKeepsPartial(u) ==
  [resp |-> Some(u.val), err |-> u.err, unmarshals |-> 1]
CreateCompletionUnmarshalledSwallowsErr(u) ==
  IF ~IsNil(u.err) THEN Failed(Nil, 1)
  ELSE [resp |-> Some(u.val), err |-> Nil, unmarshals |-> 1]
CreateCompletionUnmarshalled(u) ==
  IF ~IsNil(u.err) THEN Failed(u.err, 1)
  ELSE [resp |-> Some(u.val), err |-> Nil, unmarshals |-> 1]

\* the body of CreateCompletion after c.post has returned res
CreateCompletionIgnoresErr(res) ==
  CreateCompletionUnmarshalled(UnmarshalResponse("Completion", res.b))
CreateCompletionResult(res) ==
  IF ~IsNil(res.err) THEN Failed(res.err, 0)
  ELSE CreateCompletionUnmarshalled(UnmarshalResponse("Completion", res.b))

\* the last lines of CreateFineTunedCompletion
CreateFineTunedCompletionUnmarshalled(u) ==
  IF ~IsNil(u.err) THEN Failed(u.err, 1)
  ELSE [resp |-> Some(u.val), err |-> Nil, unmarshals |-> 1]

\* the body of CreateFineTunedCompletion after c.post has returned res
CreateFineTunedCompletionIgnoresErr(res) ==
  CreateFineTunedCompletionUnmarshalled(UnmarshalResponse("FineTunedModel", res.b))
CreateFineTunedCompletionWrongVariant(res) ==
  IF ~IsNil(res.err) THEN Failed(res.err, 0)
  ELSE CreateFineTunedCompletionUnmarshalled(UnmarshalResponse("Completion", res.b))
CreateFineTunedCompletionResult(res) ==
  IF ~IsNil(res.err) THEN Failed(res.err, 0)
  ELSE CreateFineTunedCompletionUnmarshalled(UnmarshalResponse("FineTunedModel", res.b))

\* a caller invokes CreateCompletion(ctx, cr): the request is serialized and
\* POSTed to the completions route, and the call waits inside c.post
CreateCompletion(c) ==
  /\ pc[c] = "notStarted"
  /\ \E cr \in SampleRequests("Completion") :
       /\ req' = [req EXCEPT ![c] = Some(cr)]
       /\ wire' = [wire EXCEPT ![c] =
                     Append(@, [route |-> RoutesCompletions, body |-> MarshalRequest(cr)])]
  /\ entry' = [entry EXCEPT ![c] = "CreateCompletion"]
  /\ pc' = [pc EXCEPT ![c] = "awaiting"]
  /\ UNCHANGED <<ctxDone, reply, ret, decoded>>
  /\ UNCHANGED cvars

CreateFineTunedCompletion(c) ==
  /\ pc[c] = "notStarted"
  /\ \E cr \in SampleRequests("FineTunedModel") :
       /\ req' = [req EXCEPT ![c] = Some(cr)]
       /\ wire' = [wire EXCEPT ![c] =
                     Append(@, [route |-> RoutesCompletions, body |-> MarshalRequest(cr)])]
  /\ entry' = [entry EXCEPT ![c] = "CreateFineTunedCompletion"]
  /\ pc' = [pc EXCEPT ![c] = "awaiting"]
  /\ UNCHANGED <<ctxDone, reply, ret, decoded>>
  /\ UNCHANGED cvars

\* the POST of call c completes: bytes arrive, or the transport fails
PostCompletes(c) ==
  /\ pc[c] = "awaiting"
  /\ IsNil(reply[c])
  /\ ~ctxDone[c]
  /\ \E o \in PostOutcomes : reply' = [reply EXCEPT ![c] = Some(o)]
  /\ UNCHANGED <<pc, entry, req, ctxDone, wire, ret, decoded>>
  /\ UNCHANGED cvars

\* the caller cancels the context of call c while it awaits the response
\* (nothing has come back for its POST yet); the wait is then abandoned
Cancel(c) ==
  /\ pc[c] = "awaiting"
  /\ IsNil(reply[c])
  /\ ~ctxDone[c]
  /\ ctxDone' = [ctxDone EXCEPT ![c] = TRUE]
  /\ UNCHANGED <<pc, entry, req, wire, reply, ret, decoded>>
  /\ UNCHANGED cvars

PostReturned(c) == pc[c] = "awaiting" /\ (ctxDone[c] \/ ~IsNil(reply[c]))

\* call c returns r to its caller
Returns(c, r) ==
  /\ ret' = [ret EXCEPT ![c] = Some([resp |-> r.resp, err |-> r.err])]
  /\ decoded' = [decoded EXCEPT ![c] = @ + r.unmarshals]
  /\ pc' = [pc EXCEPT ![c] = "done"]

\* call c issues its POST again instead of returning r
Retries(c, r) ==
  /\ wire' = [wire EXCEPT ![c] = Append(@, @[1])]
  /\ reply' = [reply EXCEPT ![c] = Nil]
  /\ ctxDone' = [ctxDone EXCEPT ![c] = FALSE]
  /\ decoded' = [decoded EXCEPT ![c] = @ + r.unmarshals]
  /\ UNCHANGED <<pc, ret>>

\* call c stores r in a response value every call of the client returns
ReturnsShared(c, r) ==
  /\ ret' = [d \in Calls |-> IF d = c \/ pc[d] = "done"
                             THEN Some([resp |-> r.resp, err |-> r.err]) ELSE ret[d]]
  /\ decoded' = [decoded EXCEPT ![c] = @ + r.unmarshals]
  /\ pc' = [pc EXCEPT ![c] = "done"]

\* c.post returns and CreateCompletion runs to its return statement
CreateCompletionReturnRetries(c) ==
  /\ PostReturned(c)
  /\ entry[c] = "CreateCompletion"
  /\ Len(wire[c]) <= 2
  /\ IF ~IsNil(CreateCompletionResult(post(c)).err)
     THEN Retries(c, CreateCompletionResult(post(c)))
     ELSE Returns(c, CreateCompletionResult(post(c))) /\ UNCHANGED <<ctxDone, wire, reply>>
  /\ UNCHANGED <<entry, req>>
  /\ UNCHANGED cvars
CreateCompletionReturnSharesResp(c) ==
  /\ PostReturned(c)
  /\ entry[c] = "CreateCompletion"
  /\ ReturnsShared(c, CreateCompletionResult(post(c)))
  /\ UNCHANGED <<entry, req, ctxDone, wire, reply>>
  /\ UNCHANGED cvars
CreateCompletionReturn(c) ==
  /\ PostReturned(c)
  /\ entry[c] = "CreateCompletion"
  /\ Returns(c, CreateCompletionResult(post(c)))
  /\ UNCHANGED <<entry, req, ctxDone, wire, reply>>
  /\ UNCHANGED cvars

CreateFineTunedCompletionReturn(c) ==
  /\ PostReturned(c)
  /\ entry[c] = "CreateFineTunedCompletion"
  /\ Returns(c, CreateFineTunedCompletionResult(post(c)))
  /\ UNCHANGED <<entry, req, ctxDone, wire, reply>>
  /\ UNCHANGED cvars

----------------------------------------------------------------------------
(* Specifications *)

TransportIdle ==
  /\ pc = [c \in Calls |-> "notStarted"]
  /\ entry = [c \in Calls |-> "none"]
  /\ req = [c \in Calls |-> Nil]
  /\ ctxDone = [c \in Calls |-> FALSE]
  /\ wire = [c \in Calls |-> <<>>]
  /\ reply = [c \in Calls |-> Nil]
  /\ ret = [c \in Calls |-> Nil]
  /\ decoded = [c \in Calls |-> 0]

Init == TransportIdle /\ CodecIdle

Next ==
  \E c \in Calls :
    \/ CreateCompletion(c)
    \/ CreateFineTunedCompletion(c)
    \/ PostCompletes(c)
    \/ Cancel(c)
    \/ CreateCompletionReturn(c)
    \/ CreateFineTunedCompletionReturn(c)

Spec == Init /\ [][Next]_vars

InitRequest ==
  /\ TransportIdle
  /\ cstage = "request"
  /\ \E T \in Variants : \E name \in ModelNames(T) :
       \E S \in SUBSET OptionalFields :
         /\ Cardinality(S) <= MaxSetFields
         /\ \E alt \in AltChoices(S) : cin = RequestWith(T, name, S, alt)
  /\ cbody = Absent
  /\ cout = Nil

InitBody ==
  /\ TransportIdle
  /\ cstage = "body"
  /\ cin \in Bodies
  /\ cbody = Absent
  /\ cout = Nil

InitCodec == InitRequest \/ InitBody

NextCodec == Serialize \/ Deserialize \/ Parse

SpecCodec == InitCodec /\ [][NextCodec]_vars

----------------------------------------------------------------------------
(* Properties of the transport, checked under Spec *)

Done(c) == pc[c] = "done"

\* the POST of call c came back from the network (it was not cancelled)
Replied(c) == ~ctxDone[c] /\ ~IsNil(reply[c])

\* C1: whenever the POST of a call returns an error (connection failure or
\* non-success status), the call returns nil and that same error, and
\* json.Unmarshal is never run for it; for either entry point.
C1_PostErrorPropagated ==
  \A c \in Calls :
    (Done(c) /\ Replied(c) /\ ~IsNil(reply[c].some.err)) =>
      /\ ret[c] = Some([resp |-> Nil, err |-> reply[c].some.err])
      /\ decoded[c] = 0

C1_Witness ==
  \E c, d \in Calls :
    /\ Done(c) /\ entry[c] = "CreateCompletion"
    /\ Replied(c) /\ reply[c].some.err = Some(ConnRefused)
    /\ ret[c].some.err = Some(ConnRefused)
    /\ Done(d) /\ entry[d] = "CreateFineTunedCompletion"
    /\ Replied(d) /\ reply[d].some.err = Some(StatusError)
    /\ ret[d].some.err = Some(StatusError)

\* the sample bodies that are no JSON text or do not fit CompletionResponse
Undecodable(b) == b \in {Malformed, WrongShapeBody, JArr(<<>>)}

C3_ExactlyOnePost ==
  \A c \in Calls :
    /\ Len(wire[c]) = (IF pc[c] = "notStarted" THEN 0 ELSE 1)
    /\ \A i \in 1..Len(wire[c]) : wire[c][i].route = RoutesCompletions

C3_Witness ==
  \E c, d \in Calls :
    /\ Done(c) /\ Replied(c) /\ ~IsNil(reply[c].some.err) /\ Len(wire[c]) = 1
    /\ Done(d) /\ Replied(d) /\ reply[d].some.b = Malformed /\ Len(wire[d]) = 1
    /\ ~IsNil(ret[d].some.err)

\* C7: a call whose context is cancelled while it awaits the HTTP response
\* can return at once, and ends with the cancellation error and a nil
\* response, never a partial response.
C7_CancelledCallFails ==
  \A c \in Calls :
    /\ (pc[c] = "awaiting" /\ ctxDone[c]) =>
         ENABLED (CreateCompletionReturn(c) \/ CreateFineTunedCompletionReturn(c))
    /\ (Done(c) /\ ctxDone[c]) =>
         ret[c] = Some([resp |-> Nil, err |-> Some(ContextCanceled)])

C7_Witness ==
  \E c, d \in Calls :
    /\ Done(c) /\ ctxDone[c] /\ entry[c] = "CreateCompletion"
    /\ ret[c].some.err = Some(ContextCanceled)
    /\ Done(d) /\ ctxDone[d] /\ entry[d] = "CreateFineTunedCompletion"
    /\ ret[d].some.err = Some(ContextCanceled)

\* what the POST of call c came back with
Came(c) ==
  IF ctxDone[c] THEN [b |-> NoBytes, err |-> Some(ContextCanceled)] ELSE reply[c].some

\* what the entry point of call c makes of res
Outcome(c, r) == [resp |-> r.resp, err |-> r.err]

OwnOutcome(c) ==
  IF entry[c] = "CreateCompletion"
  THEN Outcome(c, CreateCompletionResult(Came(c)))
  ELSE Outcome(c, CreateFineTunedCompletionResult(Came(c)))

CallState(c) == <<pc[c], entry[c], req[c], ctxDone[c], wire[c], reply[c], ret[c], decoded[c]>>

C8_OwnOutcome ==
  \A c \in Calls :
    Done(c) => /\ ret[c] = Some(OwnOutcome(c))
               /\ wire[c][1].body = MarshalRequest(req[c].some)

C8_OneCallPerStep ==
  \A c, d \in Calls : c # d => (CallState(c)' = CallState(c) \/ CallState(d)' = CallState(d))

\* C8: concurrent calls on one client are independent: under every
\* interleaving a call's outcome is the one its own request and the result
\* of its own POST determine, and a step of one call changes nothing that
\* belongs to another call.
C8_CallsIndependent == []C8_OwnOutcome /\ [][C8_OneCallPerStep]_vars

C8_Witness ==
  \E c, d \in Calls :
    /\ c # d /\ Done(c) /\ Done(d)
    /\ ~IsNil(ret[c].some.resp) /\ ~IsNil(ret[d].some.err)
    /\ reply[c] # reply[d]

C9_Terminal ==
  \A c \in Calls :
    IF Done(c)
    THEN ~IsNil(ret[c]) /\ (IsNil(ret[c].some.resp) # IsNil(ret[c].some.err))
    ELSE IsNil(ret[c])

C9_Step ==
  \A c \in Calls :
    /\ \/ pc'[c] = pc[c]
       \/ pc[c] = "notStarted" /\ pc'[c] = "awaiting"
       \/ pc[c] = "awaiting" /\ pc'[c] = "done"
    /\ Done(c) => (pc'[c] = "done" /\ ret'[c] = ret[c])

\* C9: a call moves only from not-started to awaiting to done; when done it
\* holds exactly one of a response and an error, it never changes
\* afterwards, and before that nothing has been returned.
C9_CallLifecycle == []C9_Terminal /\ [][C9_Step]_vars

C9_Witness ==
  \E c, d \in Calls :
    /\ Done(c) /\ ~IsNil(ret[c].some.resp) /\ IsNil(ret[c].some.err)
    /\ Done(d) /\ IsNil(ret[d].some.resp) /\ ~IsNil(ret[d].some.err)

SameFields(a, b) == \A f \in OptionalFields : a[f] = b[f]

\* two responses that differ at most in the variant of the model identifier
SameUpToVariant(x, y) ==
  IF IsNil(x) \/ IsNil(y) THEN IsNil(x) /\ IsNil(y)
  ELSE [x.some EXCEPT !.Model = @.name] = [y.some EXCEPT !.Model = @.name]

SameApartFromModel(a, b) == \A k \in DOMAIN a.obj \ {"model"} : a.obj[k] = b.obj[k]

\* C10: the two entry points are one operation: with the same request
\* fields (apart from the model identifier) and the same result of the
\* POST, they POST the same body to the same route the same number of
\* times and return the same error and the same response, the response's
\* model identifier being of the variant of the entry point's request.
C10_EntryPointsEquivalent ==
  /\ \A c \in Calls :
       (Done(c) /\ ~IsNil(ret[c].some.resp)) =>
         ret[c].some.resp.some.Model.variant = req[c].some.Model.variant
  /\ \A c, d \in Calls :
       ( /\ Done(c) /\ entry[c] = "CreateCompletion"
         /\ Done(d) /\ entry[d] = "CreateFineTunedCompletion"
         /\ SameFields(req[c].some, req[d].some)
         /\ ctxDone[c] = ctxDone[d] /\ reply[c] = reply[d] ) =>
         /\ Len(wire[c]) = Len(wire[d])
         /\ \A i \in 1..Len(wire[c]) :
              /\ wire[c][i].route = wire[d][i].route
              /\ SameApartFromModel(wire[c][i].body, wire[d][i].body)
         /\ ret[c].some.err = ret[d].some.err
         /\ decoded[c] = decoded[d]
         /\ SameUpToVariant(ret[c].some.resp, ret[d].some.resp)

C10_Witness ==
  \E c, d \in Calls :
    /\ Done(c) /\ entry[c] = "CreateCompletion"
    /\ Done(d) /\ entry[d] = "CreateFineTunedCompletion"
    /\ SameFields(req[c].some, req[d].some)
    /\ Replied(c) /\ reply[c] = reply[d] /\ reply[c].some.b = GoodBody
    /\ ret[c].some.resp.some.Model.variant = "Completion"
    /\ ret[d].some.resp.some.Model.variant = "FineTunedModel"

----------------------------------------------------------------------------
(* Properties of the codec, checked under SpecCodec *)

\* the key each field's struct tag names
JSONKey(f) ==
  CASE f = "Model" -> "model" [] f = "Prompt" -> "prompt" [] f = "Suffix" -> "suffix"
    [] f = "MaxTokens" -> "max_tokens" [] f = "Temperature" -> "temperature"
    [] f = "TopP" -> "top_p" [] f = "N" -> "n" [] f = "Stream" -> "stream"
    [] f = "LogProbs" -> "logprobs" [] f = "Echo" -> "echo" [] f = "Stop" -> "stop"
    [] f = "PresencePenalty" -> "presence_penalty"
    [] f = "FrequencyPenalty" -> "frequency_penalty" [] f = "BestOf" -> "best_of"
    [] f = "LogitBias" -> "logit_bias" [] f = "User" -> "user"

\* a field is set when it holds anything but its Go zero value: a non-nil
\* pointer (to zero too), a non-nil slice or map (empty too), a non-zero
\* number, a non-empty string, true
IsSet(cr, f) == cr[f] # ZeroRequest(cr.Model.variant)[f]

\* a stop list or logit_bias map that is set and has no entries
IsEmptyCollection(cr, f) ==
  f \in {"Stop", "LogitBias"} /\ ~IsNil(cr[f]) /\ Len(cr[f].some) = 0

Serialized == cstage \in {"serialized", "roundtrip"}

ScenarioKeys ==
  \A T \in Variants : \A name \in ModelNames(T) :
    cin = MinimalRequest(T, name) => Keys(cbody) = {"model", "prompt", "max_tokens"}

\* C4 as stated: model is always a key, an unset optional field never is,
\* a set optional field always is.
C4_Original ==
  Serialized =>
    /\ "model" \in Keys(cbody)
    /\ \A f \in OptionalFields : IsSet(cin, f) <=> JSONKey(f) \in Keys(cbody)
    /\ ScenarioKeys

\* C4, amended: model is always a key; an unset optional field never is; a
\* set optional field always is, an explicit zero of temperature, top_p and
\* logprobs included, except a stop list or logit_bias map set to an empty
\* value, which is left out like an unset one; the request of model, prompt
\* and max_tokens = 5 has exactly these three keys.
C4_KeysOfSetFields ==
  Serialized =>
    /\ "model" \in Keys(cbody)
    /\ \A f \in OptionalFields :
         (IsSet(cin, f) /\ ~IsEmptyCollection(cin, f)) <=> JSONKey(f) \in Keys(cbody)
    /\ ScenarioKeys

C4_Witness ==
  /\ cstage = "serialized"
  /\ cin.Temperature = Some(0) /\ cin.LogProbs = Some(0) /\ cin.MaxTokens = 0
  /\ cin.Model.name = ""
  /\ Keys(cbody) = {"model", "temperature", "logprobs"}
  /\ cbody.obj.temperature = JNum(0)

RoundTripped == cstage = "roundtrip"

\* C5 as stated: reading the serialized request back gives every set field
\* its value again.
C5_Original ==
  RoundTripped =>
    /\ IsNil(cout.err)
    /\ \A f \in OptionalFields \cup {"Model"} : IsSet(cin, f) => cout.val[f] = cin[f]

\* the text json.Marshal writes for a Go string, read back
TextBack(x) == IF x = BadUTF8 THEN Replacement ELSE x

\* the value a set field has after the round trip
ValueBack(f, x) ==
  IF f \in {"Prompt", "Suffix", "User"} THEN TextBack(x)
  ELSE IF f = "Stop"
       THEN (IF Len(x.some) = 0 THEN Nil
             ELSE Some([i \in 1..Len(x.some) |-> TextBack(x.some[i])]))
  ELSE IF f = "LogitBias"
       THEN (IF Len(x.some) = 0 THEN Nil
             ELSE Some([i \in 1..Len(x.some) |->
                          [k |-> TextBack(x.some[i].k), v |-> x.some[i].v]]))
  ELSE x

\* C5, amended: reading the serialized request back succeeds and gives
\* every set field its value again, the bare-typed ones included, except
\* that a stop list or logit_bias map set to an empty value comes back nil
\* and that invalid UTF-8 in a string comes back as U+FFFD.
C5_RoundTrip ==
  RoundTripped =>
    /\ IsNil(cout.err)
    /\ \A f \in OptionalFields \cup {"Model"} :
         IsSet(cin, f) => cout.val[f] = ValueBack(f, cin[f])

C5_Witness ==
  /\ RoundTripped
  /\ cin.MaxTokens = 5 /\ cout.val.MaxTokens = 5
  /\ cin.Stop = Some(<<"END", BadUTF8>>) /\ cout.val.Stop = Some(<<"END", Replacement>>)
  /\ cin.LogitBias = Some(<<>>) /\ cout.val.LogitBias = Nil
  /\ cin.Model.name # "" /\ cout.val.Model = cin.Model

\* entry j of the source array and element c of Choices are the same choice
SameChoice(j, c) ==
  IF IsNull(j) THEN IsNil(c)
  ELSE /\ ~IsNil(c)
       /\ c.some.Text = j.obj.text.str
       /\ c.some.Index = j.obj.index.num
       /\ c.some.FinishReason = j.obj.finish_reason.str
       /\ IsNil(c.some.LogProbs) <=> IsNull(j.obj.logprobs)

\* C6: deserializing a response body whose choices array has k entries
\* yields a response whose Choices has exactly k elements, element i being
\* entry i of the source array: nothing reordered, dropped or duplicated.
C6_ChoicesInSourceOrder ==
  (cstage = "parsed" /\ IsObj(cin) /\ IsArr(cin.obj.choices) /\ IsNil(cout.err)) =>
    /\ ~IsNil(cout.val.Choices)
    /\ Len(cout.val.Choices.some) = Len(cin.obj.choices.arr)
    /\ \A i \in 1..Len(cin.obj.choices.arr) :
         SameChoice(cin.obj.choices.arr[i], cout.val.Choices.some[i])

C6_Witness ==
  /\ cstage = "parsed" /\ IsObj(cin) /\ IsArr(cin.obj.choices) /\ IsNil(cout.err)
  /\ Len(cin.obj.choices.arr) = 2
  /\ IsNull(cin.obj.choices.arr[1])
  /\ ~IsNull(cin.obj.choices.arr[2])
  /\ cin.obj.choices.arr[2].obj.index = JNum(1)
  /\ IsNil(cout.val.Choices.some[1])
  /\ cout.val.Choices.some[2].some.Index = 1

====
